---- MODULE Spec2Model ----
(***************************************************************************)
(* Swipe engine of the stock-exchange party game backend:                  *)
(*   - SwipeToken codec, update and analyze  (app/swipe_token.py)          *)
(*   - calculate_price_delta                 (app/swipe_token.py)          *)
(*   - the swipe handler and its per-ticker locks (app/routers/swipe.py)   *)
(*   - the other price writers: tick_prices (app/scheduler.py) and the     *)
(*     admin price set and stock creation (app/routers/stocks.py)          *)
(*                                                                         *)
(* Strings are sequences of ASCII codes.  In the handler prices are        *)
(* integers (hundredths of a currency unit) and float products are         *)
(* truncated to that resolution; calculate_price_delta_float is the        *)
(* function in binary64 arithmetic.                                        *)
(***************************************************************************)
EXTENDS Integers, Sequences, FiniteSets, TLC

(***************************************************************************)
(* Settings (app/config.py)                                                *)
(***************************************************************************)
swipe_bucket_duration == 20
swipe_bucket_count == 30
swipe_streak_threshold == 5
\* percentages in hundredths, multipliers in tenths
swipe_base_percent_min == 1
swipe_base_percent_max == 3
swipe_random_multiplier_min == 5
swipe_random_multiplier_max == 20
swipe_streak_penalty == 7

LEFT == "left"
RIGHT == "right"
SwipeDirection == {LEFT, RIGHT}
NoDirection == "none"

(***************************************************************************)
(* Small helpers                                                           *)
(***************************************************************************)
\* max(0.0, x) that lets x through (mutant)
max_unclamped(a, b) == b

Max(a, b) == IF a >= b THEN a ELSE b
Min(a, b) == IF a <= b THEN a ELSE b

\* Python's list slice xs[:n] for n >= 0
Prefix(xs, n) == SubSeq(xs, 1, Min(n, Len(xs)))

\* sum of the left (side = 1) or right (side = 2) counts of buckets lo..hi
RECURSIVE SumSide(_, _, _, _)
SumSide(bs, side, lo, hi) ==
    IF lo > hi THEN 0
    ELSE IF lo = hi THEN bs[lo][side]
    ELSE SumSide(bs, side, lo, (lo + hi) \div 2)
         + SumSide(bs, side, ((lo + hi) \div 2) + 1, hi)

SumLeft(bs) == SumSide(bs, 1, 1, Len(bs))
SumRight(bs) == SumSide(bs, 2, 1, Len(bs))

(***************************************************************************)
(* SwipeToken: [ts, buckets], buckets a sequence of <<left, right>>        *)
(***************************************************************************)
\* cls(ts=int(time.time())): the fresh token
FreshToken(now) == [ts |-> now, buckets |-> <<>>]

\* SwipeToken.update without the trim of line 64 (mutant)
update_no_trim(tok, direction, now) ==
    LET elapsed == now - tok.ts
        buckets_to_shift == elapsed \div swipe_bucket_duration
        shifted == IF buckets_to_shift > 0
                   THEN [i \in 1..buckets_to_shift |-> <<0, 0>>] \o tok.buckets
                   ELSE tok.buckets
        ts1 == IF buckets_to_shift > 0 THEN now ELSE tok.ts
        buckets == IF shifted = <<>> THEN << <<0, 0>> >> ELSE shifted
        ts2 == IF shifted = <<>> THEN now ELSE ts1
        b0 == IF direction = LEFT
              THEN <<buckets[1][1] + 1, buckets[1][2]>>
              ELSE <<buckets[1][1], buckets[1][2] + 1>>
    IN [ts |-> ts2, buckets |-> [buckets EXCEPT ![1] = b0]]

\* SwipeToken.update that stamps the token on every call, self.ts = now
\* outside the shift branch (mutant)
update_restamp(tok, direction, now) ==
    LET elapsed == now - tok.ts
        buckets_to_shift == elapsed \div swipe_bucket_duration
        shifted == IF buckets_to_shift > 0
                   THEN Prefix([i \in 1..buckets_to_shift |-> <<0, 0>>] \o tok.buckets,
                               swipe_bucket_count)
                   ELSE tok.buckets
        buckets == IF shifted = <<>> THEN << <<0, 0>> >> ELSE shifted
        b0 == IF direction = LEFT
              THEN <<buckets[1][1] + 1, buckets[1][2]>>
              ELSE <<buckets[1][1], buckets[1][2] + 1>>
    IN [ts |-> now, buckets |-> [buckets EXCEPT ![1] = b0]]

\* SwipeToken.update that counts the swipe on both sides of bucket 0 (mutant)
update_both_sides(tok, direction, now) ==
    LET elapsed == now - tok.ts
        buckets_to_shift == elapsed \div swipe_bucket_duration
        shifted == IF buckets_to_shift > 0
                   THEN Prefix([i \in 1..buckets_to_shift |-> <<0, 0>>] \o tok.buckets,
                               swipe_bucket_count)
                   ELSE tok.buckets
        ts1 == IF buckets_to_shift > 0 THEN now ELSE tok.ts
        buckets == IF shifted = <<>> THEN << <<0, 0>> >> ELSE shifted
        ts2 == IF shifted = <<>> THEN now ELSE ts1
    IN [ts |-> ts2,
        buckets |-> [buckets EXCEPT ![1] = <<buckets[1][1] + 1, buckets[1][2] + 1>>]]

\* SwipeToken.update(direction), with now = int(time.time())
update(tok, direction, now) ==
    LET elapsed == now - tok.ts
        buckets_to_shift == elapsed \div swipe_bucket_duration
        shifted == IF buckets_to_shift > 0
                   THEN Prefix([i \in 1..buckets_to_shift |-> <<0, 0>>] \o tok.buckets,
                               swipe_bucket_count)
                   ELSE tok.buckets
        ts1 == IF buckets_to_shift > 0 THEN now ELSE tok.ts
        buckets == IF shifted = <<>> THEN << <<0, 0>> >> ELSE shifted
        ts2 == IF shifted = <<>> THEN now ELSE ts1
        b0 == IF direction = LEFT
              THEN <<buckets[1][1] + 1, buckets[1][2]>>
              ELSE <<buckets[1][1], buckets[1][2] + 1>>
    IN [ts |-> ts2, buckets |-> [buckets EXCEPT ![1] = b0]]

\* SwipeStats(): the defaults; pickiness_ratio is the fraction <<num, den>>
DefaultStats ==
    [total_left |-> 0, total_right |-> 0, recent_left |-> 0, recent_right |-> 0,
     streak_direction |-> NoDirection, streak_length |-> 0,
     pickiness_ratio |-> <<1, 2>>]

\* what one bucket is to the streak loop of analyze: only left swipes, only
\* right swipes, or a bucket that ends the loop (empty, mixed)
BucketDirection(bucket) ==
    IF bucket[1] = 0 /\ bucket[2] = 0 THEN NoDirection
    ELSE IF bucket[1] > 0 /\ bucket[2] = 0 THEN LEFT
    ELSE IF bucket[2] > 0 /\ bucket[1] = 0 THEN RIGHT
    ELSE NoDirection

\* the streak loop of analyze, <<streak_dir, streak_len>>: the direction of
\* bucket 0 and the number of leading buckets of that direction (the loop
\* breaks at the first bucket that is empty, mixed or of the other direction)
StreakWalk(bs) ==
    IF bs = <<>> \/ BucketDirection(bs[1]) = NoDirection THEN <<NoDirection, 0>>
    ELSE <<BucketDirection(bs[1]),
           Cardinality({k \in 1..Len(bs) :
                          \A j \in 1..k : BucketDirection(bs[j]) = BucketDirection(bs[1])})>>

\* analyze that reports the streak whatever its length (mutant)
ReportedStreakAlways(streak) == streak

\* streak_len >= swipe_streak_threshold: the streak is reported
ReportedStreak(streak) ==
    IF streak[2] >= swipe_streak_threshold THEN streak ELSE <<NoDirection, 0>>

\* pickiness_ratio as the fraction <<num, den>>
Pickiness(total_left, total) == IF total > 0 THEN <<total_left, total>> ELSE <<1, 2>>

AnalyzeTotals(bs, total_left, total_right, streak) ==
    [total_left |-> total_left, total_right |-> total_right,
     recent_left |-> SumLeft(Prefix(bs, 3)), recent_right |-> SumRight(Prefix(bs, 3)),
     streak_direction |-> streak[1], streak_length |-> streak[2],
     pickiness_ratio |-> Pickiness(total_left, total_left + total_right)]

\* SwipeToken.analyze()
analyze(tok) ==
    IF tok.buckets = <<>> THEN DefaultStats
    ELSE AnalyzeTotals(tok.buckets, SumLeft(tok.buckets), SumRight(tok.buckets),
                       ReportedStreak(StreakWalk(tok.buckets)))

(***************************************************************************)
(* SwipeToken codec.  encode = urlsafe base64 of the compact JSON          *)
(* {"ts":N,"buckets":[[l,r],...]} that model_dump_json emits; decode =     *)
(* base64.urlsafe_b64decode (non-strict a2b_base64) followed by            *)
(* model_validate_json.  The JSON reader accepts the compact form (no      *)
(* white space, keys in field order, "buckets" optional with default []).  *)
(***************************************************************************)
RECURSIVE Digits(_)
Digits(n) == IF n < 10 THEN <<48 + n>> ELSE Digits(n \div 10) \o <<48 + (n % 10)>>

IntToJson(n) == IF n < 0 THEN <<45>> \o Digits(-n) ELSE Digits(n)

\* the JSON of buckets lo..hi, comma separated
RECURSIVE BucketsToJson(_, _, _)
BucketsToJson(bs, lo, hi) ==
    IF lo > hi THEN <<>>
    ELSE IF lo = hi
         THEN <<91>> \o IntToJson(bs[lo][1]) \o <<44>> \o IntToJson(bs[lo][2]) \o <<93>>
    ELSE BucketsToJson(bs, lo, (lo + hi) \div 2) \o <<44>>
         \o BucketsToJson(bs, ((lo + hi) \div 2) + 1, hi)

\* self.model_dump_json().encode()
model_dump_json(tok) ==
    <<123, 34, 116, 115, 34, 58>> \o IntToJson(tok.ts)
    \o <<44, 34, 98, 117, 99, 107, 101, 116, 115, 34, 58, 91>>
    \o BucketsToJson(tok.buckets, 1, Len(tok.buckets)) \o <<93, 125>>

\* the url-safe base64 alphabet: A-Z a-z 0-9 - _
B64Char(v) ==
    IF v < 26 THEN 65 + v
    ELSE IF v < 52 THEN 97 + (v - 26)
    ELSE IF v < 62 THEN 48 + (v - 52)
    ELSE IF v = 62 THEN 45 ELSE 95

\* the k-th (0..3) character of the quantum that encodes the 24 bits of group
SextetChar(group, k) ==
    B64Char(CASE k = 0 -> group \div 262144
              [] k = 1 -> (group \div 4096) % 64
              [] k = 2 -> (group \div 64) % 64
              [] OTHER -> group % 64)

\* the 24 bits of the g-th (0..) group of three bytes, zero filled
GroupAt(bytes, n, g) ==
    (IF 3 * g + 1 <= n THEN bytes[3 * g + 1] ELSE 0) * 65536
    + (IF 3 * g + 2 <= n THEN bytes[3 * g + 2] ELSE 0) * 256
    + (IF 3 * g + 3 <= n THEN bytes[3 * g + 3] ELSE 0)

\* urlsafe_b64encode that leaves out the '=' padding (mutant)
urlsafe_b64encode_unpadded(bytes) ==
    [j \in 1..(4 * (Len(bytes) \div 3) + (IF Len(bytes) % 3 = 0 THEN 0 ELSE (Len(bytes) % 3) + 1)) |->
        SextetChar(GroupAt(bytes, Len(bytes), (j - 1) \div 4), (j - 1) % 4)]

\* base64.urlsafe_b64encode(bytes), '=' padded
urlsafe_b64encode(bytes) ==
    [j \in 1..(4 * ((Len(bytes) + 2) \div 3)) |->
        IF 3 * ((j - 1) \div 4) + ((j - 1) % 4) > Len(bytes) THEN 61
        ELSE SextetChar(GroupAt(bytes, Len(bytes), (j - 1) \div 4), (j - 1) % 4)]

\* SwipeToken.encode()
encode(tok) == urlsafe_b64encode(model_dump_json(tok))

\* table_a2b_base64 after the url-safe translation ('-' as '+', '_' as '/');
\* 64 marks a character outside the alphabet
B64Val(c) ==
    IF c >= 65 /\ c <= 90 THEN c - 65
    ELSE IF c >= 97 /\ c <= 122 THEN c - 71
    ELSE IF c >= 48 /\ c <= 57 THEN c + 4
    ELSE IF c = 43 \/ c = 45 THEN 62
    ELSE IF c = 47 \/ c = 95 THEN 63
    ELSE 64

\* a2b_base64 reading the '=' at f[i]: the pad sequence of an open quantum is
\* complete (quad_pos >= 2 and quad_pos + pads >= 4), which ends the input
PadStops(f, i) ==
    /\ f[i] = 61
    /\ LET quad_pos == Cardinality({k \in 1..(i - 1) : f[k] # 61}) % 4
           pads == IF i > 1 /\ f[i - 1] = 61 THEN 2 ELSE 1
       IN quad_pos >= 2 /\ quad_pos + pads >= 4

\* index of the '=' that ends the input, Len(f) + 1 if there is none
StopAt(f) ==
    IF \E i \in 1..Len(f) : PadStops(f, i)
    THEN CHOOSE i \in 1..Len(f) : PadStops(f, i) /\ \A k \in 1..(i - 1) : ~PadStops(f, k)
    ELSE Len(f) + 1

\* the 24 bits of the g-th (0..) quantum of the data characters d, zero filled
QuadAt(d, m, g) ==
    (IF 4 * g + 1 <= m THEN B64Val(d[4 * g + 1]) ELSE 0) * 262144
    + (IF 4 * g + 2 <= m THEN B64Val(d[4 * g + 2]) ELSE 0) * 4096
    + (IF 4 * g + 3 <= m THEN B64Val(d[4 * g + 3]) ELSE 0) * 64
    + (IF 4 * g + 4 <= m THEN B64Val(d[4 * g + 4]) ELSE 0)

ByteOf(quad, k) ==
    CASE k = 0 -> quad \div 65536
      [] k = 1 -> (quad \div 256) % 256
      [] OTHER -> quad % 256

\* the bytes of the data characters d; input that ends inside a quantum
\* without its padding is binascii.Error (a ValueError)
A2BData(d, m, padded) ==
    IF ~padded /\ m % 4 # 0 THEN [ok |-> FALSE, bytes |-> <<>>]
    ELSE [ok |-> TRUE,
          bytes |-> [j \in 1..(3 * (m \div 4) + (IF m % 4 = 0 THEN 0 ELSE (m % 4) - 1)) |->
                        ByteOf(QuadAt(d, m, (j - 1) \div 3), (j - 1) % 3)]]

A2BUpTo(f, stopAt) ==
    A2BData(SelectSeq(SubSeq(f, 1, stopAt - 1), LAMBDA c : c # 61),
            Len(SelectSeq(SubSeq(f, 1, stopAt - 1), LAMBDA c : c # 61)),
            stopAt <= Len(f))

A2BFiltered(f) == A2BUpTo(f, StopAt(f))

\* binascii.a2b_base64 (non-strict): characters outside the alphabet are
\* skipped, then the data up to the end of the padding is decoded.
\* Returns [ok, bytes].
a2b_base64(s) == A2BFiltered(SelectSeq(s, LAMBDA c : c = 61 \/ B64Val(c) < 64))

\* base64.urlsafe_b64decode(str): ValueError on a non-ASCII character
urlsafe_b64decode(s) ==
    IF \E i \in 1..Len(s) : s[i] > 127 THEN [ok |-> FALSE, bytes |-> <<>>]
    ELSE a2b_base64(s)

IsDigit(c) == c >= 48 /\ c <= 57

\* index after the run of digits starting at i
RECURSIVE DigitsEnd(_, _)
DigitsEnd(s, i) == IF i <= Len(s) /\ IsDigit(s[i]) THEN DigitsEnd(s, i + 1) ELSE i

RECURSIVE DigitsValue(_, _, _, _)
DigitsValue(s, i, j, acc) ==
    IF i >= j THEN acc ELSE DigitsValue(s, i + 1, j, acc * 10 + (s[i] - 48))

NoParse(i) == [ok |-> FALSE, val |-> 0, next |-> i]

\* the digits s[j..k-1] of a JSON integer that starts at i
ParseDigits(s, i, neg, j, k) ==
    IF k = j THEN NoParse(i)
    ELSE [ok |-> TRUE,
          val |-> IF neg THEN -DigitsValue(s, j, k, 0) ELSE DigitsValue(s, j, k, 0),
          next |-> k]

\* after the optional '-': a single 0, or a run of digits
ParseUnsigned(s, i, neg, j) ==
    ParseDigits(s, i, neg, j,
                IF j <= Len(s) /\ s[j] = 48 THEN j + 1 ELSE DigitsEnd(s, j))

\* a JSON integer at position i: [ok, val, next]
ParseInt(s, i) ==
    IF i <= Len(s) /\ s[i] = 45 THEN ParseUnsigned(s, i, TRUE, i + 1)
    ELSE ParseUnsigned(s, i, FALSE, i)

HasAt(s, i, lit) ==
    /\ i + Len(lit) - 1 <= Len(s)
    /\ \A k \in 1..Len(lit) : s[i + k - 1] = lit[k]

\* "[l,r]" with l parsed: the ',' r ']' that must follow
ParseBucketRight(s, i, l, r) ==
    IF ~r.ok \/ ~HasAt(s, r.next, <<93>>) THEN NoParse(i)
    ELSE [ok |-> TRUE, val |-> <<l.val, r.val>>, next |-> r.next + 1]

ParseBucketLeft(s, i, l) ==
    IF ~l.ok \/ ~HasAt(s, l.next, <<44>>) THEN NoParse(i)
    ELSE ParseBucketRight(s, i, l, ParseInt(s, l.next + 1))

\* a tuple[int, int] at position i: "[l,r]", exactly two integers
ParseBucket(s, i) ==
    IF ~HasAt(s, i, <<91>>) THEN NoParse(i)
    ELSE ParseBucketLeft(s, i, ParseInt(s, i + 1))

\* the k-th smallest element of the set of positions starts
NthStart(starts, k) ==
    CHOOSE i \in starts : Cardinality({j \in starts : j < i}) = k - 1

\* the bucket at position i is well formed and is followed by the ']' that
\* closes the list at position close, or by ',' and the next bucket
BucketInList(s, close, b) ==
    /\ b.ok
    /\ b.next <= close
    /\ b.next = close \/ (HasAt(s, b.next, <<44, 91>>) /\ b.next + 1 < close)

\* the elements of list[tuple[int, int]] in s[lo..close-1], s[close] being
\* the closing ']': the buckets start at the '[' characters, in order
ParseBucketsAt(s, lo, close, starts) ==
    IF /\ lo \in starts
       /\ \A i \in starts : BucketInList(s, close, ParseBucket(s, i))
    THEN [ok |-> TRUE,
          val |-> [k \in 1..Cardinality(starts) |->
                      ParseBucket(s, NthStart(starts, k)).val]]
    ELSE [ok |-> FALSE, val |-> <<>>]

\* list[tuple[int, int]] whose opening '[' is at position open; "]}" must
\* end the input
ParseBuckets(s, open) ==
    IF ~(open + 1 < Len(s) /\ HasAt(s, Len(s) - 1, <<93, 125>>))
    THEN [ok |-> FALSE, val |-> <<>>]
    ELSE IF open + 1 = Len(s) - 1 THEN [ok |-> TRUE, val |-> <<>>]
    ELSE ParseBucketsAt(s, open + 1, Len(s) - 1,
                        {i \in (open + 1)..(Len(s) - 2) : s[i] = 91})

InvalidJson == [ok |-> FALSE, tok |-> [ts |-> 0, buckets |-> <<>>]]

\* the value of "buckets" parsed
ValidateBuckets(t, bs) ==
    IF bs.ok THEN [ok |-> TRUE, tok |-> [ts |-> t.val, buckets |-> bs.val]]
    ELSE InvalidJson

\* the value of "ts" parsed: the object closes (buckets defaults to []) or
\* "buckets" follows
ValidateAfterTs(s, t) ==
    IF ~t.ok THEN InvalidJson
    ELSE IF HasAt(s, t.next, <<125>>) /\ t.next = Len(s)
         THEN [ok |-> TRUE, tok |-> [ts |-> t.val, buckets |-> <<>>]]
    ELSE IF ~HasAt(s, t.next, <<44, 34, 98, 117, 99, 107, 101, 116, 115, 34, 58, 91>>)
         THEN InvalidJson
    ELSE ValidateBuckets(t, ParseBuckets(s, t.next + 11))

\* cls.model_validate_json(json_bytes): [ok, tok]; ~ok is ValidationError
model_validate_json(s) ==
    IF ~HasAt(s, 1, <<123, 34, 116, 115, 34, 58>>) THEN InvalidJson
    ELSE ValidateAfterTs(s, ParseInt(s, 7))

\* the try block of decode: the token, or ValueError / ValidationError
DecodeValidated(raw) ==
    IF ~raw.ok THEN InvalidJson ELSE model_validate_json(raw.bytes)

\* the outcome of decode's try block: the token returned, and whether it is
\* the client's (accepted) or the cls(ts=int(time.time())) of the except clause
DecodeOrFresh(parsed, now) ==
    [accepted |-> parsed.ok,
     token |-> IF parsed.ok THEN parsed.tok ELSE FreshToken(now)]

\* decode with the branch it took; None and "" are both the empty sequence
TryDecode(token_str, now) ==
    IF token_str = <<>> THEN [accepted |-> FALSE, token |-> FreshToken(now)]
    ELSE DecodeOrFresh(DecodeValidated(urlsafe_b64decode(token_str)), now)

\* SwipeToken.decode(token_str)
decode(token_str, now) == TryDecode(token_str, now).token

\* whether decode takes the token from the string (no fallback to fresh)
Accepted(token_str) == TryDecode(token_str, 0).accepted

(***************************************************************************)
(* calculate_price_delta.  The two random.uniform draws are the inputs     *)
(* base_percent (hundredths) and random_mult (tenths).                     *)
(***************************************************************************)
\* lines 151-153: streak_mult in tenths
StreakMult(stats, direction) ==
    IF stats.streak_direction = direction THEN swipe_streak_penalty ELSE 10

calculate_price_delta(current_price, direction, stats, base_percent, random_mult) ==
    LET streak_mult == StreakMult(stats, direction)
        n == stats.pickiness_ratio[1]
        d == stats.pickiness_ratio[2]
        \* pickiness_mult as the fraction <<num, den>>
        pickiness_mult ==
            IF direction = RIGHT /\ 10 * n > 6 * d THEN <<d + 2 * n, 2 * d>>
            ELSE IF direction = LEFT /\ 10 * n < 4 * d THEN <<3 * d - 2 * n, 2 * d>>
            ELSE <<1, 1>>
        delta == (current_price * base_percent * random_mult * streak_mult
                  * pickiness_mult[1]) \div (10000 * pickiness_mult[2])
    IN IF direction = LEFT THEN -delta ELSE delta

(***************************************************************************)
(* Python floats (IEEE-754 binary64, round to nearest, ties to even) for    *)
(* the arithmetic of calculate_price_delta.  A float is                     *)
(* [sign, man, exp] with the value (-1)^sign * man * 2^exp; man is a        *)
(* natural number of 53 bits (or 0) written in four limbs of LimbBits bits, *)
(* lowest first.  Infinities, NaN and subnormal numbers are not needed for  *)
(* the magnitudes of prices and multipliers.                                *)
(***************************************************************************)
LimbBits == 14
Base == 16384
Pow2(n) == 2 ^ n

Limb(a, i) == IF i >= 1 /\ i <= Len(a) THEN a[i] ELSE 0

\* the limbs of the number whose limb columns are cols (each below 2^30)
RECURSIVE CarryFrom(_, _, _)
CarryFrom(cols, i, carry) ==
    IF i > Len(cols) THEN <<carry>>
    ELSE <<(cols[i] + carry) % Base>>
         \o CarryFrom(cols, i + 1, (cols[i] + carry) \div Base)

RECURSIVE ColumnSum(_, _, _, _)
ColumnSum(a, b, k, i) ==
    IF i > Len(a) THEN 0
    ELSE (IF k + 1 - i >= 1 /\ k + 1 - i <= Len(b) THEN a[i] * b[k + 1 - i] ELSE 0)
         + ColumnSum(a, b, k, i + 1)

\* the exact product of two natural numbers
BigMul(a, b) == CarryFrom([k \in 1..(Len(a) + Len(b) - 1) |-> ColumnSum(a, b, k, 1)], 1, 0)

\* the exact sum of two natural numbers of the same number of limbs
BigAdd(a, b) == CarryFrom([k \in 1..Len(a) |-> a[k] + b[k]], 1, 0)

RECURSIVE BorrowFrom(_, _, _, _)
BorrowFrom(a, b, i, borrow) ==
    IF i > Len(a) THEN <<>>
    ELSE IF a[i] - b[i] - borrow < 0
         THEN <<a[i] - b[i] - borrow + Base>> \o BorrowFrom(a, b, i + 1, 1)
         ELSE <<a[i] - b[i] - borrow>> \o BorrowFrom(a, b, i + 1, 0)

\* a - b for a >= b
BigSub(a, b) == BorrowFrom(a, b, 1, 0)

BigLess(a, b) ==
    \E i \in 1..Len(a) : a[i] < b[i] /\ \A j \in (i + 1)..Len(a) : a[j] = b[j]

\* the number of bits of a natural number
BitLen(a) ==
    IF \A i \in 1..Len(a) : a[i] = 0 THEN 0
    ELSE LET t == CHOOSE t \in 1..Len(a) :
                     a[t] # 0 /\ \A j \in (t + 1)..Len(a) : a[j] = 0
         IN LimbBits * (t - 1)
            + (CHOOSE n \in 1..LimbBits : Pow2(n - 1) <= a[t] /\ a[t] < Pow2(n))

BitAt(a, k) ==
    IF k < 0 THEN 0 ELSE (Limb(a, (k \div LimbBits) + 1) \div Pow2(k % LimbBits)) % 2

\* the LimbBits bits of a from bit lo on (bits below bit 0 are 0)
Field(a, lo) ==
    IF lo >= 0
    THEN (Limb(a, (lo \div LimbBits) + 1) \div Pow2(lo % LimbBits))
         + (Limb(a, (lo \div LimbBits) + 2) % Pow2(lo % LimbBits))
           * Pow2(LimbBits - (lo % LimbBits))
    ELSE IF lo <= 0 - LimbBits THEN 0
    ELSE (Limb(a, 1) % Pow2(LimbBits + lo)) * Pow2(0 - lo)

\* a shifted right by s bits (left for s < 0), in n limbs
Shifted(a, s, n) == [j \in 1..n |-> Field(a, LimbBits * (j - 1) + s)]

\* the bits of a below bit s are all 0
LowZero(a, s) ==
    s <= 0 \/ (/\ \A i \in 1..(s \div LimbBits) : Limb(a, i) = 0
               /\ Limb(a, (s \div LimbBits) + 1) % Pow2(s % LimbBits) = 0)

FloatZero(sign) == [sign |-> sign, man |-> <<0, 0, 0, 0>>, exp |-> 0]
IsZero(x) == x.man = <<0, 0, 0, 0>>

\* the float nearest to a * 2^exp (plus a non-zero amount below the last bit
\* of a if sticky), ties to even; a has at least 54 bits if sticky
RoundFloat(sign, a, exp, sticky) ==
    IF BitLen(a) = 0 THEN FloatZero(sign)
    ELSE LET s == BitLen(a) - 53
             q == Shifted(a, s, 4)
             up == /\ BitAt(a, s - 1) = 1
                   /\ (sticky \/ ~LowZero(a, s - 1) \/ q[1] % 2 = 1)
             q1 == IF up THEN CarryFrom(<<q[1] + 1, q[2], q[3], q[4]>>, 1, 0) ELSE q
         IN IF q1[4] >= 2048
            THEN [sign |-> sign, man |-> <<0, 0, 0, 1024>>, exp |-> exp + s + 1]
            ELSE [sign |-> sign, man |-> SubSeq(q1, 1, 4), exp |-> exp + s]

\* x * y
FloatMul(x, y) ==
    IF IsZero(x) \/ IsZero(y) THEN FloatZero((x.sign + y.sign) % 2)
    ELSE RoundFloat((x.sign + y.sign) % 2, BigMul(x.man, y.man), x.exp + y.exp, FALSE)

FloatNeg(x) == [x EXCEPT !.sign = 1 - @]

\* x + y
FloatAdd(x, y) ==
    IF IsZero(x) /\ IsZero(y) THEN FloatZero(IF x.sign = 1 /\ y.sign = 1 THEN 1 ELSE 0)
    ELSE IF IsZero(x) THEN y
    ELSE IF IsZero(y) THEN x
    ELSE IF x.exp - y.exp > 60 THEN x
    ELSE IF y.exp - x.exp > 60 THEN y
    ELSE LET e == IF x.exp < y.exp THEN x.exp ELSE y.exp
             a == Shifted(x.man, e - x.exp, 9)
             b == Shifted(y.man, e - y.exp, 9)
         IN IF x.sign = y.sign THEN RoundFloat(x.sign, BigAdd(a, b), e, FALSE)
            ELSE IF a = b THEN FloatZero(0)
            ELSE IF BigLess(b, a) THEN RoundFloat(x.sign, BigSub(a, b), e, FALSE)
            ELSE RoundFloat(y.sign, BigSub(b, a), e, FALSE)

\* x - y
FloatSub(x, y) == FloatAdd(x, FloatNeg(y))

\* -1, 0 or 1
FloatSign(x) == IF IsZero(x) THEN 0 ELSE IF x.sign = 1 THEN 0 - 1 ELSE 1

\* |x| < |y| for x, y other than 0
MagnitudeLess(x, y) == x.exp < y.exp \/ (x.exp = y.exp /\ BigLess(x.man, y.man))

\* x < y
FloatLess(x, y) ==
    IF FloatSign(x) # FloatSign(y) THEN FloatSign(x) < FloatSign(y)
    ELSE IF FloatSign(x) = 1 THEN MagnitudeLess(x, y)
    ELSE IF FloatSign(x) = 0 - 1 THEN MagnitudeLess(y, x)
    ELSE FALSE

\* long division of the natural number a by d < 2^17, limbs i down to 1
RECURSIVE DivFrom(_, _, _, _)
DivFrom(a, d, i, rem) ==
    IF i = 0 THEN [q |-> <<>>, rem |-> rem]
    ELSE [q |-> Append(DivFrom(a, d, i - 1, (rem * Base + a[i]) % d).q,
                       (rem * Base + a[i]) \div d),
          rem |-> DivFrom(a, d, i - 1, (rem * Base + a[i]) % d).rem]

\* n / d for integers 0 <= n < 2^31 and 0 < d < 2^17: int / int of Python,
\* and the float a decimal literal n/d stands for
NatDiv(n, d) ==
    LET r == DivFrom(<<0, 0, 0, 0, 0, n % Base, (n \div Base) % Base,
                       n \div (Base * Base)>>, d, 8, 0)
    IN RoundFloat(0, r.q, 0 - 5 * LimbBits, r.rem # 0)

TrueDiv(n, d) == IF n < 0 THEN FloatNeg(NatDiv(0 - n, d)) ELSE NatDiv(n, d)

\* float(n)
FromInt(n) == TrueDiv(n, 1)

\* calculate_price_delta in floats without the negation of lines 168-169
\* (mutant)
calculate_price_delta_unsigned(current_price, direction, stats, base_percent, random_mult) ==
    LET base_delta == FloatMul(current_price, base_percent)
        streak_mult == IF stats.streak_direction = direction
                       THEN TrueDiv(swipe_streak_penalty, 10) ELSE FromInt(1)
        pickiness_ratio == TrueDiv(stats.pickiness_ratio[1], stats.pickiness_ratio[2])
        pickiness_mult ==
            IF direction = RIGHT /\ FloatLess(TrueDiv(6, 10), pickiness_ratio)
            THEN FloatAdd(FromInt(1), FloatSub(pickiness_ratio, TrueDiv(5, 10)))
            ELSE IF direction = LEFT /\ FloatLess(pickiness_ratio, TrueDiv(4, 10))
            THEN FloatAdd(FromInt(1), FloatSub(TrueDiv(5, 10), pickiness_ratio))
            ELSE FromInt(1)
    IN FloatMul(FloatMul(FloatMul(base_delta, random_mult), streak_mult), pickiness_mult)

\* calculate_price_delta in floats: current_price, base_percent and
\* random_mult are floats, stats is what analyze returns, its
\* pickiness_ratio <<total_left, total>> standing for total_left / total
\* (line 101) and <<1, 2>> for the default 0.5
calculate_price_delta_float(current_price, direction, stats, base_percent, random_mult) ==
    LET base_delta == FloatMul(current_price, base_percent)
        streak_mult == IF stats.streak_direction = direction
                       THEN TrueDiv(swipe_streak_penalty, 10) ELSE FromInt(1)
        pickiness_ratio == TrueDiv(stats.pickiness_ratio[1], stats.pickiness_ratio[2])
        pickiness_mult ==
            IF direction = RIGHT /\ FloatLess(TrueDiv(6, 10), pickiness_ratio)
            THEN FloatAdd(FromInt(1), FloatSub(pickiness_ratio, TrueDiv(5, 10)))
            ELSE IF direction = LEFT /\ FloatLess(pickiness_ratio, TrueDiv(4, 10))
            THEN FloatAdd(FromInt(1), FloatSub(TrueDiv(5, 10), pickiness_ratio))
            ELSE FromInt(1)
        delta == FloatMul(FloatMul(FloatMul(base_delta, random_mult), streak_mult),
                          pickiness_mult)
    IN IF direction = LEFT THEN FloatNeg(delta) ELSE delta

(***************************************************************************)
(* Bounds of the model                                                     *)
(***************************************************************************)
\* swipe requests in flight
MaxRequests == 2
\* runs started by the other price writers (tick_prices runs plus admin price sets)
MaxOther == 1
\* swipes of the client whose token is followed
MaxSwipes == 2
\* times the wall clock moves on between those swipes
MaxAdvances == 2
\* consecutive swipes of the client whose chain of tokens is followed
MaxChain == 6
\* int(time.time()) when the model starts
StartTime == 50 * swipe_bucket_duration

(***************************************************************************)
(* The swipe handler, the price writers and the database                   *)
(***************************************************************************)
Stocks == {"AAAA", "BBBB"}
UnknownTicker == "ZZZZ"
Tickers == Stocks \cup {UnknownTicker}
Requests == 1..MaxRequests
\* prices in hundredths
seed_initial_price == 10000
stock_base_price == 100000

INITIAL == "initial"
SWIPE_UP == "swipe_up"
SWIPE_DOWN == "swipe_down"
RANDOM == "random"
ADMIN == "admin"

VARIABLES
    now,            \* int(time.time())
    clock,          \* per ticker, the count of datetime.now(UTC) readings for its rows
    price_events,   \* the price_event table per ticker, in insertion order
    stock_rows,     \* the stock table: ticker -> [updated_at]
    ticker_locks,   \* _ticker_locks: ticker -> lock (NoLock: no entry)
    locks,          \* the asyncio.Lock objects made so far: lock -> [locked, waiters]
    requests,       \* the swipe requests in flight
    tick,           \* the tick_prices job
    admin,          \* the admin price set request
    acquired,       \* history: per ticker, the requests in gate acquisition order
    lab             \* the token of one client followed over its swipes

vars == <<now, clock, price_events, stock_rows, ticker_locks, locks, requests,
          tick, admin, acquired, lab>>

NoEvent == [price |-> 0, change_type |-> "none", created_at |-> 0,
            writer |-> 0, read_price |-> 0, delta |-> 0]

\* PriceEvent(ticker, price, change_type); created_at defaults to now(UTC).
\* writer, read_price and delta are history fields.
PriceEvent(price, change_type, created_at, writer, read_price, delta) ==
    [price |-> price, change_type |-> change_type, created_at |-> created_at,
     writer |-> writer, read_price |-> read_price, delta |-> delta]

\* index of the event with the latest created_at (order_by created_at.desc())
LatestIndex(evs) ==
    CHOOSE i \in 1..Len(evs) : \A k \in 1..Len(evs) : evs[k].created_at <= evs[i].created_at

\* Stock.price: price_events[0].price, settings.stock_base_price without events
StockPrice(evs) == IF evs = <<>> THEN stock_base_price ELSE evs[LatestIndex(evs)].price

\* a not-found check that always finds a stock (mutant)
StockExistsAlways(ticker) == TRUE

\* session.get(Stock, ticker) finds a row
StockExists(ticker) == ticker \in DOMAIN stock_rows

\* asyncio.Lock()
NewLock == [locked |-> FALSE, waiters |-> <<>>]

\* a Lock object is known by the ticker it was made for and its serial number
NoLock == <<"", 0>>
NextLock(heap, ticker) == <<ticker, Cardinality({id \in DOMAIN heap : id[1] = ticker}) + 1>>

\* _get_ticker_lock that makes a new Lock on every call (mutant)
get_ticker_lock_always_new(map, heap, ticker) ==
    [map |-> [map EXCEPT ![ticker] = NextLock(heap, ticker)],
     heap |-> heap @@ (NextLock(heap, ticker) :> NewLock),
     lock |-> NextLock(heap, ticker)]

\* _get_ticker_lock that keeps one Lock for all tickers (mutant)
get_ticker_lock_global(map, heap, ticker) ==
    IF DOMAIN heap = {}
    THEN [map |-> [map EXCEPT ![ticker] = NextLock(heap, ticker)],
          heap |-> heap @@ (NextLock(heap, ticker) :> NewLock),
          lock |-> NextLock(heap, ticker)]
    ELSE [map |-> [map EXCEPT ![ticker] = CHOOSE id \in DOMAIN heap : TRUE],
          heap |-> heap,
          lock |-> CHOOSE id \in DOMAIN heap : TRUE]

\* _get_ticker_lock(ticker): the dict and the Lock objects after the call,
\* and the lock returned
get_ticker_lock(map, heap, ticker) ==
    IF map[ticker] = NoLock
    THEN [map |-> [map EXCEPT ![ticker] = NextLock(heap, ticker)],
          heap |-> heap @@ (NextLock(heap, ticker) :> NewLock),
          lock |-> NextLock(heap, ticker)]
    ELSE [map |-> map, heap |-> heap, lock |-> map[ticker]]

\* a release that unlocks and wakes no waiter (mutant)
release_no_wake(lk) == [locked |-> FALSE, waiters |-> lk.waiters]

\* asyncio.Lock.release(): unlock and complete the first waiter's future
release(lk) ==
    [locked |-> FALSE,
     waiters |-> IF lk.waiters = <<>> THEN <<>>
                 ELSE [lk.waiters EXCEPT ![1] = [req |-> @.req, woken |-> TRUE]]]

\* SwipeResponse(**kwargs): pydantic validation of the required fields
SwipeResponseFields == {"ticker", "new_price", "delta", "token"}
SwipeResponse(kwargs) == SwipeResponseFields \subseteq DOMAIN kwargs

\* steps is a history field: the calls of the handler in the order made
IdleRequest ==
    [pc |-> "idle", ticker |-> UnknownTicker, direction |-> RIGHT,
     token |-> FreshToken(0), stats |-> DefaultStats, lock |-> NoLock,
     price_event |-> NoEvent, updated_at |-> 0, waited |-> FALSE,
     outcome |-> "none", response_token |-> <<>>, steps |-> <<>>]

\* swipe lines 38-44 with the gate asked for first (mutant)
swipe_prologue_gate_first ==
    <<"get_ticker_lock", "acquire", "decode", "update", "analyze">>

\* swipe lines 38-44, the calls in program order: SwipeToken.decode,
\* token.update, token.analyze, _get_ticker_lock, and lock.acquire() of the
\* async with
swipe_prologue == <<"decode", "update", "analyze", "get_ticker_lock", "acquire">>
\* lines 46-49 when the stock is missing: session.get, raise, and the
\* release of the lock as the exception leaves the async with
swipe_not_found == <<"get", "raise", "release">>
\* lines 46-75: session.get, calculate_price_delta, PriceEvent
swipe_read == <<"get", "calculate_price_delta", "PriceEvent">>
\* lines 76-93: session.commit, then token.encode() as the argument of
\* SwipeResponse(...), and the release of the lock as the return (or the
\* exception of SwipeResponse) leaves the async with
swipe_epilogue == <<"commit", "encode", "SwipeResponse", "release">>

\* a token with a reported streak of right swipes
StreakToken == [ts |-> StartTime, buckets |-> [i \in 1..swipe_streak_threshold |-> <<0, 1>>]]
\* a token made up by a client: its left count is negative, so that a LEFT
\* swipe gets pickiness_ratio -16/1 and pickiness_mult 17.5
GreedyToken == [ts |-> StartTime, buckets |-> << <<0 - 17, 17>> >>]
\* the <<direction, swipe_token>> pairs the clients of the handler send
ClientInputs == {<<RIGHT, <<>> >>, <<LEFT, encode(StreakToken)>>,
                 <<LEFT, encode(GreedyToken)>>}

\* the draws of random.uniform considered: <<base_percent, random_mult>>
Draws == {<<swipe_base_percent_min, swipe_random_multiplier_min>>,
          <<swipe_base_percent_max, swipe_random_multiplier_max>>}

\* the order in which select(Stock) returns the rows
StockOrder == <<"AAAA", "BBBB">>
\* tick_prices draws delta at an end of [-max_delta, max_delta]
TickDraws == {-1, 1}
\* prices the admin posts
AdminPrices == {-100, 20000}
\* writer ids of the history field: requests are 1..MaxRequests
TickWriter == 0 - 1
AdminWriter == 0 - 2

NoLab == [mode |-> "off"]

\* the database after seeding and the process after start-up
InitServer ==
    /\ now = StartTime
    /\ clock = [t \in Tickers |-> 1]
    /\ price_events = [t \in Tickers |->
                         IF t \in Stocks
                         THEN <<PriceEvent(seed_initial_price, INITIAL, 0, 0, 0, 0)>>
                         ELSE <<>>]
    /\ stock_rows = [t \in Stocks |-> [updated_at |-> 0]]
    /\ ticker_locks = [t \in Tickers |-> NoLock]
    /\ locks = <<>>
    /\ requests = [r \in Requests |-> IdleRequest]
    /\ tick = [pc |-> "idle", runs |-> 0, events |-> <<>>]
    /\ admin = [pc |-> "idle", runs |-> 0, ticker |-> UnknownTicker,
                price_event |-> NoEvent, updated_at |-> 0]
    /\ acquired = [t \in Tickers |-> <<>>]

Init == InitServer /\ lab = NoLab

\* swipe lines 38-44: decode, update, analyze, _get_ticker_lock and the start
\* of lock.acquire(); there is no await before the lock is taken or queued for
SwipeStart(r) ==
    /\ requests[r].pc = "idle"
    /\ \A q \in 1..(r - 1) : requests[q].pc # "idle"
    /\ \E input \in ClientInputs :
       \E token \in {update(decode(input[2], now), input[1], now)} :
       \E stats \in {analyze(token)} :
       \E ticker \in Tickers :
          LET got == get_ticker_lock(ticker_locks, locks, ticker)
              lk == got.heap[got.lock]
              started == [requests[r] EXCEPT
                             !.ticker = ticker, !.direction = input[1],
                             !.token = token, !.stats = stats,
                             !.lock = got.lock, !.steps = swipe_prologue]
          IN /\ ticker_locks' = got.map
             /\ IF ~lk.locked /\ lk.waiters = <<>>
                THEN /\ locks' = [got.heap EXCEPT ![got.lock].locked = TRUE]
                     /\ requests' = [requests EXCEPT ![r] =
                            [started EXCEPT !.pc = "get",
                                            !.steps = Append(@, "acquired")]]
                     /\ acquired' = [acquired EXCEPT ![ticker] = Append(@, r)]
                ELSE /\ locks' = [got.heap EXCEPT ![got.lock].waiters =
                                      Append(@, [req |-> r, woken |-> FALSE])]
                     /\ requests' = [requests EXCEPT ![r] =
                            [started EXCEPT !.pc = "waiting", !.waited = TRUE,
                                            !.steps = Append(@, "wait")]]
                     /\ UNCHANGED acquired
    /\ UNCHANGED <<now, clock, price_events, stock_rows, tick, admin, lab>>

\* lock.acquire() resumes after its future was completed by release()
SwipeWake(r) ==
    /\ requests[r].pc = "waiting"
    /\ LET l == requests[r].lock
           ws == locks[l].waiters
       IN /\ \E i \in 1..Len(ws) :
                /\ ws[i] = [req |-> r, woken |-> TRUE]
                /\ locks' = [locks EXCEPT ![l] =
                       [locked |-> TRUE,
                        waiters |-> SubSeq(ws, 1, i - 1) \o SubSeq(ws, i + 1, Len(ws))]]
    /\ requests' = [requests EXCEPT ![r] =
           [@ EXCEPT !.pc = "get", !.steps = Append(@, "acquired")]]
    /\ acquired' = [acquired EXCEPT ![requests[r].ticker] = Append(@, r)]
    /\ UNCHANGED <<now, clock, price_events, stock_rows, ticker_locks, tick, admin, lab>>

\* swipe lines 46-49: session.get finds no stock; HTTPException 404 leaves
\* the async with block
SwipeNotFound(r) ==
    /\ requests[r].pc = "get"
    /\ ~StockExists(requests[r].ticker)
    /\ locks' = [locks EXCEPT ![requests[r].lock] = release(@)]
    /\ requests' = [requests EXCEPT ![r] =
           [@ EXCEPT !.pc = "done", !.outcome = "not_found",
                     !.steps = @ \o swipe_not_found]]
    /\ UNCHANGED <<now, clock, price_events, stock_rows, ticker_locks, tick, admin,
                   acquired, lab>>

\* swipe lines 46-75: session.get returns the stock with its price events;
\* delta, new price and the PriceEvent are computed up to the await of commit
SwipeRead(r) ==
    /\ requests[r].pc = "get"
    /\ StockExists(requests[r].ticker)
    /\ \E draw \in Draws :
          LET t == requests[r].ticker
              price == StockPrice(price_events[t])
              delta == calculate_price_delta(price, requests[r].direction,
                                             requests[r].stats, draw[1], draw[2])
              new_price == Max(0, price + delta)
              change_type == IF requests[r].direction = RIGHT THEN SWIPE_UP ELSE SWIPE_DOWN
          IN requests' = [requests EXCEPT ![r] =
                 [@ EXCEPT !.pc = "commit",
                           !.price_event = PriceEvent(new_price, change_type, clock[t],
                                                      r, price, delta),
                           !.updated_at = clock[t] + 1,
                           !.steps = @ \o swipe_read]]
    /\ clock' = [clock EXCEPT ![requests[r].ticker] = @ + 2]
    /\ UNCHANGED <<now, price_events, stock_rows, ticker_locks, locks, tick, admin,
                   acquired, lab>>

\* swipe lines 76-93: the commit, then the response is built inside the
\* async with block (token.encode() included) and the lock is released
SwipeCommit(r) ==
    /\ requests[r].pc = "commit"
    /\ LET t == requests[r].ticker
           kwargs == [ticker |-> t, new_price |-> requests[r].price_event.price,
                      delta |-> requests[r].price_event.delta,
                      swipe_token |-> encode(requests[r].token)]
       IN /\ price_events' = [price_events EXCEPT ![t] = Append(@, requests[r].price_event)]
          /\ stock_rows' = [s \in DOMAIN stock_rows |->
                               IF s = t THEN [updated_at |-> requests[r].updated_at]
                               ELSE stock_rows[s]]
          /\ \E valid \in {SwipeResponse(kwargs)} :
                requests' = [requests EXCEPT ![r] =
                    [@ EXCEPT !.pc = "done",
                              !.outcome = IF valid THEN "ok" ELSE "validation_error",
                              !.response_token = IF valid THEN kwargs.swipe_token ELSE <<>>,
                              !.steps = @ \o swipe_epilogue]]
    /\ locks' = [locks EXCEPT ![requests[r].lock] = release(@)]
    /\ UNCHANGED <<now, clock, ticker_locks, tick, admin, acquired, lab>>

\* tick_prices lines 34-58: the select returns all (active) stocks, one
\* PriceEvent per stock is built, up to the await of commit
TickRead ==
    /\ tick.pc = "idle"
    /\ tick.runs + admin.runs < MaxOther
    /\ \E draw \in [1..Len(StockOrder) -> TickDraws] :
          tick' = [tick EXCEPT
              !.pc = "commit", !.runs = @ + 1,
              !.events = [k \in 1..Len(StockOrder) |->
                  LET price == StockPrice(price_events[StockOrder[k]])
                      max_delta == (price * 5) \div 100
                      delta == draw[k] * max_delta
                  IN [price_event |-> PriceEvent(Max(0, price + delta), RANDOM,
                                                 clock[StockOrder[k]], TickWriter,
                                                 price, delta),
                      updated_at |-> clock[StockOrder[k]] + 1]]]
    /\ clock' = [t \in Tickers |-> IF t \in Stocks THEN clock[t] + 2 ELSE clock[t]]
    /\ UNCHANGED <<now, price_events, stock_rows, ticker_locks, locks, requests,
                   admin, acquired, lab>>

\* tick_prices line 60: the commit writes every event of the run
TickCommit ==
    /\ tick.pc = "commit"
    /\ price_events' = [t \in Tickers |->
           IF t \in Stocks
           THEN LET k == CHOOSE k \in 1..Len(StockOrder) : StockOrder[k] = t
                IN Append(price_events[t], tick.events[k].price_event)
           ELSE price_events[t]]
    /\ stock_rows' = [t \in Stocks |->
           LET k == CHOOSE k \in 1..Len(StockOrder) : StockOrder[k] = t
           IN [updated_at |-> tick.events[k].updated_at]]
    /\ tick' = [tick EXCEPT !.pc = "idle", !.events = <<>>]
    /\ UNCHANGED <<now, clock, ticker_locks, locks, requests, admin, acquired, lab>>

\* update_stock_price lines 238-241: unknown ticker, 404
AdminNotFound ==
    /\ admin.pc = "idle"
    /\ tick.runs + admin.runs < MaxOther
    /\ admin' = [admin EXCEPT !.runs = @ + 1, !.ticker = UnknownTicker]
    /\ UNCHANGED <<now, clock, price_events, stock_rows, ticker_locks, locks, requests,
                   tick, acquired, lab>>

\* update_stock_price lines 238-255: the stock is found and the ADMIN event
\* is built, up to the await of commit
AdminRead ==
    /\ admin.pc = "idle"
    /\ tick.runs + admin.runs < MaxOther
    /\ \E ticker \in Stocks, price \in AdminPrices :
          /\ admin' = [admin EXCEPT
                 !.pc = "commit", !.runs = @ + 1, !.ticker = ticker,
                 !.price_event = PriceEvent(Max(0, price), ADMIN, clock[ticker],
                                            AdminWriter, 0, 0),
                 !.updated_at = clock[ticker] + 1]
          /\ clock' = [clock EXCEPT ![ticker] = @ + 2]
    /\ UNCHANGED <<now, price_events, stock_rows, ticker_locks, locks, requests,
                   tick, acquired, lab>>

\* update_stock_price line 256: the commit
AdminCommit ==
    /\ admin.pc = "commit"
    /\ price_events' = [price_events EXCEPT ![admin.ticker] = Append(@, admin.price_event)]
    /\ stock_rows' = [stock_rows EXCEPT ![admin.ticker].updated_at = admin.updated_at]
    /\ admin' = [admin EXCEPT !.pc = "idle"]
    /\ UNCHANGED <<now, clock, ticker_locks, locks, requests, tick, acquired, lab>>

SwipeNext ==
    \/ \E r \in Requests : SwipeStart(r)
    \/ \E r \in Requests : SwipeWake(r)
    \/ \E r \in Requests : SwipeNotFound(r)
    \/ \E r \in Requests : SwipeRead(r)
    \/ \E r \in Requests : SwipeCommit(r)

Next ==
    \/ \E r \in Requests : SwipeStart(r)
    \/ \E r \in Requests : SwipeWake(r)
    \/ \E r \in Requests : SwipeNotFound(r)
    \/ \E r \in Requests : SwipeRead(r)
    \/ \E r \in Requests : SwipeCommit(r)
    \/ TickRead
    \/ TickCommit
    \/ AdminNotFound
    \/ AdminRead
    \/ AdminCommit

\* swipes, tick_prices and the admin price set
Spec == Init /\ [][Next]_vars

\* swipes are the only price writers
SwipeSpec == Init /\ [][SwipeNext]_vars

\* swipe line 46: session.get raises (the database fails); the exception
\* leaves the async with block, which releases the lock
SwipeReadFails(r) ==
    /\ requests[r].pc = "get"
    /\ locks' = [locks EXCEPT ![requests[r].lock] = release(@)]
    /\ requests' = [requests EXCEPT ![r] =
           [@ EXCEPT !.pc = "done", !.outcome = "error",
                     !.steps = @ \o <<"get", "raise", "release">>]]
    /\ UNCHANGED <<now, clock, price_events, stock_rows, ticker_locks, tick, admin,
                   acquired, lab>>

\* swipe line 76: session.commit raises; nothing is written and the
\* exception leaves the async with block, which releases the lock
SwipeCommitFails(r) ==
    /\ requests[r].pc = "commit"
    /\ locks' = [locks EXCEPT ![requests[r].lock] = release(@)]
    /\ requests' = [requests EXCEPT ![r] =
           [@ EXCEPT !.pc = "done", !.outcome = "error",
                     !.steps = @ \o <<"commit", "raise", "release">>]]
    /\ UNCHANGED <<now, clock, price_events, stock_rows, ticker_locks, tick, admin,
                   acquired, lab>>

GateNext ==
    \/ \E r \in Requests : SwipeStart(r)
    \/ \E r \in Requests : SwipeWake(r)
    \/ \E r \in Requests : SwipeNotFound(r)
    \/ \E r \in Requests : SwipeRead(r)
    \/ \E r \in Requests : SwipeCommit(r)
    \/ \E r \in Requests : SwipeReadFails(r)
    \/ \E r \in Requests : SwipeCommitFails(r)

\* the event loop runs a task whose future is done, and every critical
\* section comes to an end: the read and the commit return or raise
GateFairness ==
    \A r \in Requests :
        /\ WF_vars(SwipeWake(r))
        /\ WF_vars(SwipeReadFails(r) \/ SwipeNotFound(r) \/ SwipeRead(r))
        /\ WF_vars(SwipeCommitFails(r) \/ SwipeCommit(r))

\* the swipes with a database that can fail, under the scheduling of the
\* event loop
GateSpec == Init /\ [][GateNext]_vars /\ GateFairness

\* form values of initial_price the creator of a stock posts (hundredths)
CreatePrices == {5000, 0 - 500}

\* create_stock lines 134-172 for the ticker that is not there yet, after the
\* other price writers of the model have run: the Stock row and its INITIAL
\* event are committed together
CreateStock ==
    /\ ~StockExists(UnknownTicker)
    /\ tick.pc = "idle" /\ admin.pc = "idle"
    /\ tick.runs + admin.runs = MaxOther
    /\ \E initial_price \in CreatePrices :
          price_events' = [price_events EXCEPT ![UnknownTicker] =
              Append(@, PriceEvent(Max(0, initial_price), INITIAL,
                                   clock[UnknownTicker], AdminWriter, 0, 0))]
    /\ stock_rows' = [t \in DOMAIN stock_rows \cup {UnknownTicker} |->
                         IF t = UnknownTicker THEN [updated_at |-> clock[UnknownTicker]]
                         ELSE stock_rows[t]]
    /\ clock' = [clock EXCEPT ![UnknownTicker] = @ + 1]
    /\ UNCHANGED <<now, ticker_locks, locks, requests, tick, admin, acquired, lab>>

PriceNext ==
    \/ \E r \in Requests : SwipeStart(r)
    \/ \E r \in Requests : SwipeWake(r)
    \/ \E r \in Requests : SwipeNotFound(r)
    \/ \E r \in Requests : SwipeRead(r)
    \/ \E r \in Requests : SwipeCommit(r)
    \/ TickRead
    \/ TickCommit
    \/ AdminNotFound
    \/ AdminRead
    \/ AdminCommit
    \/ CreateStock

\* every writer of price events: swipes, tick_prices, the admin price set
\* and stock creation
PriceSpec == Init /\ [][PriceNext]_vars

(***************************************************************************)
(* The token of one client, followed over its swipes: the calls the        *)
(* handler makes on it (decode line 38, update line 39, encode line 92)    *)
(* while the wall clock moves on.                                          *)
(***************************************************************************)
\* a token with one bucket more than swipe_bucket_count, stamped StartTime
ForgedToken == [ts |-> StartTime,
                buckets |-> [i \in 1..(swipe_bucket_count + 1) |-> <<1, 0>>]]
\* a token with a negative count
NegativeToken == [ts |-> StartTime - 7, buckets |-> << <<0 - 3, 0>>, <<12, 105>> >>]
\* "!!": no base64 data at all
Garbage == <<33, 33>>
\* swipe_token values a client sends besides the string it holds: nothing,
\* garbage, and tokens it made up itself
ClientStrings == {<<>>, Garbage, encode(ForgedToken), encode(NegativeToken)}

\* tokens put through encode and decode as they are
SampleTokens ==
    {[ts |-> 0, buckets |-> <<>>],
     [ts |-> 0 - 86400, buckets |-> << <<0 - 1, 12>>, <<0, 0>>, <<345, 6>> >>],
     [ts |-> 1700000000, buckets |-> << <<7, 0>> >>]}

\* seconds the wall clock moves on in one step
TimeSteps == {swipe_bucket_duration, (swipe_bucket_count - 1) * swipe_bucket_duration}

TokenInit ==
    /\ InitServer
    /\ lab = [mode |-> "on", token |-> FreshToken(StartTime), swipes |-> 0,
              accepted |-> FALSE, origin |-> "fresh", since |-> StartTime,
              advances |-> 0,
              tripped |-> FALSE, trip_in |-> FreshToken(0), trip_out |-> FreshToken(0)]

\* the string the client holds: token.encode() of its last swipe (line 92)
HeldString == IF lab.swipes = 0 THEN <<>> ELSE encode(lab.token)

\* one swipe of the client, swipe lines 38-39: it sends the string it holds
\* (held) or one of ClientStrings.  origin is "fresh" while the token goes
\* back to a cls(ts=now) of decode through updates only, since is the time of
\* that cls(ts=now); trip_in and trip_out are the last token that went through
\* encode and then decode.
TokenSwipe ==
    /\ lab.swipes < MaxSwipes
    /\ \E held \in BOOLEAN :
       \E s \in (IF held THEN {HeldString} ELSE ClientStrings) :
       \E decoded \in {TryDecode(s, now)} :
       \E direction \in SwipeDirection :
          lab' = [lab EXCEPT
                     !.token = update(decoded.token, direction, now),
                     !.swipes = @ + 1,
                     !.accepted = decoded.accepted,
                     !.origin = IF ~decoded.accepted THEN "fresh"
                                ELSE IF held THEN lab.origin ELSE "client",
                     !.since = IF ~decoded.accepted THEN now ELSE lab.since,
                     !.tripped = IF held /\ lab.swipes > 0 THEN TRUE ELSE @,
                     !.trip_in = IF held /\ lab.swipes > 0 THEN lab.token ELSE @,
                     !.trip_out = IF held /\ lab.swipes > 0 THEN decoded.token ELSE @]
    /\ UNCHANGED <<now, clock, price_events, stock_rows, ticker_locks, locks, requests,
                   tick, admin, acquired>>

\* time.time() moves on
TokenAdvance ==
    /\ lab.advances < MaxAdvances
    /\ \E dt \in TimeSteps : now' = now + dt
    /\ lab' = [lab EXCEPT !.advances = @ + 1]
    /\ UNCHANGED <<clock, price_events, stock_rows, ticker_locks, locks, requests,
                   tick, admin, acquired>>

\* SwipeToken.decode(T.encode()) for a sample token
TokenRoundTrip ==
    /\ \E T \in SampleTokens :
          lab' = [lab EXCEPT !.tripped = TRUE, !.trip_in = T,
                             !.trip_out = decode(encode(T), now)]
    /\ UNCHANGED <<now, clock, price_events, stock_rows, ticker_locks, locks, requests,
                   tick, admin, acquired>>

TokenNext ==
    \/ TokenSwipe
    \/ TokenAdvance
    \/ TokenRoundTrip

\* the token functions as the swipe handler calls them
TokenSpec == TokenInit /\ [][TokenNext]_vars

(***************************************************************************)
(* One swipe request as far as the token goes: decode, update, analyze     *)
(* (swipe lines 38-40) and calculate_price_delta (line 54), for the token  *)
(* strings clients send at different times.                                *)
(***************************************************************************)
\* the token of the shift example: one bucket (3, 2)
ShiftToken == [ts |-> StartTime, buckets |-> << <<3, 2>> >>]
\* a token whose counts are large on the left and negative on the right
PickyToken == [ts |-> StartTime, buckets |-> << <<10, 0 - 9>> >>]
\* a token stamped in the future
FutureToken == [ts |-> StartTime + 50 * swipe_bucket_duration, buckets |-> << <<1, 0>> >>]
\* a streak of right swipes broken by a mixed bucket
MixedToken == [ts |-> StartTime,
               buckets |-> << <<0, 1>>, <<1, 1>>, <<0, 1>>, <<0, 1>>, <<0, 1>> >>]

\* swipe_token values of the requests
PipelineStrings ==
    {<<>>, Garbage, encode(ForgedToken), encode(NegativeToken), encode(ShiftToken),
     encode(PickyToken), encode(FutureToken), encode(StreakToken), encode(MixedToken)}

PipelineInit ==
    /\ InitServer
    /\ lab = [mode |-> "pipeline", ran |-> FALSE, advances |-> 0,
              accepted |-> FALSE, before |-> FreshToken(0), direction |-> RIGHT,
              at |-> 0, token |-> FreshToken(0), stats |-> DefaultStats,
              price |-> 0, deltas |-> [draw \in Draws |-> 0]]

\* swipe lines 38-40 and 54 for one request: before is the token decode
\* returns, token the one after update at time at, stats its analysis, deltas
\* the price delta for each draw at the price of the stock
PipelineSwipe ==
    /\ \E s \in PipelineStrings :
       \E decoded \in {TryDecode(s, now)} :
       \E direction \in SwipeDirection :
       \E token \in {update(decoded.token, direction, now)} :
       \E stats \in {analyze(token)} :
       \E price \in {StockPrice(price_events[StockOrder[1]])} :
          lab' = [lab EXCEPT
                     !.ran = TRUE,
                     !.accepted = decoded.accepted,
                     !.before = decoded.token,
                     !.direction = direction,
                     !.at = now,
                     !.token = token,
                     !.stats = stats,
                     !.price = price,
                     !.deltas = [draw \in Draws |->
                                    calculate_price_delta(price, direction, stats,
                                                          draw[1], draw[2])]]
    /\ UNCHANGED <<now, clock, price_events, stock_rows, ticker_locks, locks, requests,
                   tick, admin, acquired>>

\* time.time() moves on between requests
PipelineAdvance ==
    /\ lab.advances < MaxAdvances
    /\ \E dt \in TimeSteps : now' = now + dt
    /\ lab' = [lab EXCEPT !.advances = @ + 1]
    /\ UNCHANGED <<clock, price_events, stock_rows, ticker_locks, locks, requests,
                   tick, admin, acquired>>

PipelineNext ==
    \/ PipelineSwipe
    \/ PipelineAdvance

\* the token and delta computations of single swipe requests
PipelineSpec == PipelineInit /\ [][PipelineNext]_vars

(***************************************************************************)
(* A client that sends with every swipe the token of its previous swipe,   *)
(* starting without one: decode, update, analyze (swipe lines 38-40),      *)
(* streak_mult of calculate_price_delta (lines 151-153) and encode         *)
(* (line 92), while the wall clock moves on.                               *)
(***************************************************************************)
ChainInit ==
    /\ InitServer
    /\ lab = [mode |-> "chain", swipes |-> 0, advances |-> 0,
              before |-> FreshToken(0), token |-> FreshToken(0),
              direction |-> RIGHT, at |-> 0, run |-> 0, streak_mult |-> 10,
              lost |-> 0]

\* the counts in the buckets the trim of line 64 drops from tok at time at
LostByTrim(tok, at) ==
    LET k == (at - tok.ts) \div swipe_bucket_duration
        n == Len(tok.buckets)
    IN IF k > 0 /\ k + n > swipe_bucket_count
       THEN SumSide(tok.buckets, 1, Max(1, swipe_bucket_count - k + 1), n)
            + SumSide(tok.buckets, 2, Max(1, swipe_bucket_count - k + 1), n)
       ELSE 0

\* one swipe of the client: run counts the swipes in a row made in
\* direction, this one included; lost counts the swipes in buckets trimmed
\* off so far
ChainSwipe ==
    /\ lab.swipes < MaxChain
    /\ \E s \in {IF lab.swipes = 0 THEN <<>> ELSE encode(lab.token)} :
       \E before \in {decode(s, now)} :
       \E direction \in SwipeDirection :
       \E token \in {update(before, direction, now)} :
          lab' = [lab EXCEPT
                     !.swipes = @ + 1,
                     !.before = before,
                     !.token = token,
                     !.direction = direction,
                     !.at = now,
                     !.run = IF lab.swipes > 0 /\ direction = lab.direction
                             THEN @ + 1 ELSE 1,
                     !.streak_mult = StreakMult(analyze(token), direction),
                     !.lost = @ + LostByTrim(before, now)]
    /\ UNCHANGED <<now, clock, price_events, stock_rows, ticker_locks, locks, requests,
                   tick, admin, acquired>>

\* time.time() moves on between the swipes
ChainAdvance ==
    /\ lab.advances < MaxAdvances
    /\ lab.swipes > 0
    /\ \E dt \in TimeSteps : now' = now + dt
    /\ lab' = [lab EXCEPT !.advances = @ + 1]
    /\ UNCHANGED <<clock, price_events, stock_rows, ticker_locks, locks, requests,
                   tick, admin, acquired>>

ChainNext ==
    \/ ChainSwipe
    \/ ChainAdvance

\* the swipes of one client in a row
ChainSpec == ChainInit /\ [][ChainNext]_vars

(***************************************************************************)
(* calculate_price_delta on its own, in floats: the inputs are drawn in    *)
(* the initial state and the function is applied to them.                  *)
(***************************************************************************)
\* current prices as <<n, d>> for the float n / d: 0.0, 100.0, 99.34
DeltaPrices == {<<0, 1>>, <<100, 1>>, <<9934, 100>>}
\* values of random.uniform for base_percent and for random_mult, the ends of
\* the configured ranges, as <<n, d>>
BasePercents == {<<swipe_base_percent_min, 100>>, <<swipe_base_percent_max, 100>>}
RandomMults == {<<swipe_random_multiplier_min, 10>>, <<swipe_random_multiplier_max, 10>>}
\* pickiness_ratio of the stats as <<total_left, total>>; the last two are
\* outside [0, 1]
PickinessRatios == {<<1, 2>>, <<0, 1>>, <<1, 1>>, <<3, 4>>, <<7, 10>>, <<1, 3>>,
                    <<0 - 16, 1>>, <<11, 2>>}

DeltaInit ==
    /\ InitServer
    /\ lab \in {[mode |-> "delta", applied |-> FALSE, current_price |-> price,
                  direction |-> direction, streak_direction |-> streak,
                  pickiness_ratio |-> ratio, base_percent |-> bp, random_mult |-> rm,
                  delta |-> FloatZero(0), no_streak |-> FloatZero(0)] :
                     price \in DeltaPrices, direction \in SwipeDirection,
                     streak \in SwipeDirection \cup {NoDirection},
                     ratio \in PickinessRatios, bp \in BasePercents,
                     rm \in RandomMults}

\* the stats of the call, and the same stats with no streak reported
DeltaStats(streak) ==
    [DefaultStats EXCEPT !.streak_direction = streak,
                         !.streak_length = IF streak = NoDirection
                                           THEN 0 ELSE swipe_streak_threshold,
                         !.pickiness_ratio = lab.pickiness_ratio]

\* delta is calculate_price_delta(current_price, direction, stats) with the
\* draws base_percent and random_mult, no_streak the same with
\* stats.streak_direction None
DeltaApply ==
    /\ ~lab.applied
    /\ lab' = [lab EXCEPT
                  !.applied = TRUE,
                  !.delta = calculate_price_delta_float(
                                TrueDiv(lab.current_price[1], lab.current_price[2]),
                                lab.direction, DeltaStats(lab.streak_direction),
                                TrueDiv(lab.base_percent[1], lab.base_percent[2]),
                                TrueDiv(lab.random_mult[1], lab.random_mult[2])),
                  !.no_streak = calculate_price_delta_float(
                                TrueDiv(lab.current_price[1], lab.current_price[2]),
                                lab.direction, DeltaStats(NoDirection),
                                TrueDiv(lab.base_percent[1], lab.base_percent[2]),
                                TrueDiv(lab.random_mult[1], lab.random_mult[2]))]
    /\ UNCHANGED <<now, clock, price_events, stock_rows, ticker_locks, locks, requests,
                   tick, admin, acquired>>

DeltaNext == DeltaApply

\* calculate_price_delta applied to drawn inputs
DeltaSpec == DeltaInit /\ [][DeltaNext]_vars

(***************************************************************************)
(* Properties                                                              *)
(***************************************************************************)
\* between lock.acquire() returning and the async with block being left
InCriticalSection(r) == requests[r].pc \in {"get", "commit"}

\* C1: for every ticker, at most one swipe request at a time is inside that
\* ticker's critical section (read price, compute delta, commit)
C1_MutualExclusion ==
    \A r1, r2 \in Requests :
        r1 # r2 /\ InCriticalSection(r1) /\ InCriticalSection(r2)
            => requests[r1].ticker # requests[r2].ticker

\* a request waits for the gate of the ticker another request is committing on
C1_Contended ==
    \E r1, r2 \in Requests :
        /\ requests[r1].pc = "commit"
        /\ requests[r2].pc = "waiting"
        /\ requests[r1].ticker = requests[r2].ticker

\* C2: with swipes as the only price writers, every finished swipe on an
\* existing ticker has appended exactly one price event, and each swipe event
\* is max(0, p + delta) for the price p of the event just before it in the log
C2_NoLostUpdate ==
    \A t \in Stocks :
        /\ Len(price_events[t]) =
             1 + Cardinality({r \in Requests : requests[r].ticker = t
                                               /\ requests[r].pc = "done"})
        /\ \A i \in 2..Len(price_events[t]) :
              /\ price_events[t][i].read_price = price_events[t][i - 1].price
              /\ price_events[t][i].price =
                   Max(0, price_events[t][i - 1].price + price_events[t][i].delta)

\* all requests swiped the same stock concurrently and are done
C2_AllDoneOnOneStock ==
    \E t \in Stocks :
        /\ \A r \in Requests : requests[r].ticker = t /\ requests[r].pc = "done"
        /\ \E r \in Requests : requests[r].waited
        /\ Len(price_events[t]) = MaxRequests + 1

\* C3: with swipes, tick_prices and the admin price set interleaved, every
\* event written by a swipe or by tick_prices is computed from the price of
\* the event just before it in the ticker's log
C3_NoConflictingWrite ==
    \A t \in Stocks :
        \A i \in 2..Len(price_events[t]) :
            price_events[t][i].change_type \in {SWIPE_UP, SWIPE_DOWN, RANDOM}
                => price_events[t][i].read_price = price_events[t][i - 1].price

\* C4: a request waits for a gate only while a request for the same ticker is
\* in the critical section or has been handed the gate: a gate held for
\* another ticker never keeps it out
C4_DifferentTickersIndependent ==
    \A r \in Requests :
        requests[r].pc = "waiting"
            => \/ \E q \in Requests \ {r} :
                     /\ requests[q].ticker = requests[r].ticker
                     /\ InCriticalSection(q)
               \/ \E i \in 1..Len(locks[requests[r].lock].waiters) :
                     /\ locks[requests[r].lock].waiters[i].woken
                     /\ requests[locks[requests[r].lock].waiters[i].req].ticker
                          = requests[r].ticker

\* two requests are in the critical sections of two different tickers
C4_BothInside ==
    \E r1, r2 \in Requests :
        /\ requests[r1].ticker # requests[r2].ticker
        /\ requests[r1].pc = "commit"
        /\ requests[r2].pc = "get"

\* the writers of the events of ticker t after its initial event, in log order
LogWriters(t) == [i \in 1..(Len(price_events[t]) - 1) |-> price_events[t][i + 1].writer]

\* C5: for a single ticker the swipe events are in the log in the order in
\* which their requests acquired the ticker's gate
C5_LogOrderIsGateOrder ==
    \A t \in Stocks :
        /\ Len(LogWriters(t)) <= Len(acquired[t])
        /\ Len(acquired[t]) - Len(LogWriters(t)) <= 1
        /\ LogWriters(t) = SubSeq(acquired[t], 1, Len(LogWriters(t)))

\* two swipes are in the log of one ticker, one of them after waiting
C5_TwoInLog ==
    \E t \in Stocks :
        /\ Len(LogWriters(t)) >= 2
        /\ \E i \in 1..Len(LogWriters(t)) : requests[LogWriters(t)[i]].waited

\* C6: a swipe on a ticker that does not exist ends not-found and changes
\* nothing: in none of its steps is a price event appended or a stock row
\* modified, and no swipe token is returned
C6_UnknownTickerChangesNothing ==
    [][\A r \in Requests :
          requests'[r].ticker = UnknownTicker /\ requests'[r] # requests[r]
              => /\ price_events' = price_events
                 /\ stock_rows' = stock_rows
                 /\ requests'[r].response_token = <<>>
                 /\ requests'[r].outcome \in {"none", "not_found"}
                 /\ requests'[r].pc = "done" => requests'[r].outcome = "not_found"]_vars

\* a swipe on the unknown ticker has ended not-found
C6_NotFound ==
    \E r \in Requests :
        /\ requests[r].ticker = UnknownTicker
        /\ requests[r].pc = "done"
        /\ requests[r].outcome = "not_found"

\* C7: a swipe on a ticker that does not exist never creates or acquires a
\* gate for it: the lock map has no entry for the unknown ticker
C7_NoGateForUnknownTicker ==
    /\ ticker_locks[UnknownTicker] = NoLock
    /\ acquired[UnknownTicker] = <<>>

\* C8: a token that started fresh has at most swipe_bucket_count buckets after
\* every update, whatever the times and directions of the updates
C8_FreshWithinBucketCount ==
    lab.origin = "fresh" => Len(lab.token.buckets) <= swipe_bucket_count

\* a fresh token was updated again swipe_bucket_count bucket durations later
C8_Trimmed ==
    /\ lab.origin = "fresh"
    /\ lab.swipes >= 2
    /\ now - lab.since >= swipe_bucket_count * swipe_bucket_duration
    /\ lab.token.ts = now
    /\ Len(lab.token.buckets) = swipe_bucket_count

\* C9: for every token string decode accepts, the token after decode and
\* update has at most swipe_bucket_count buckets
C9_AcceptedWithinBucketCount ==
    lab.swipes > 0 /\ lab.accepted => Len(lab.token.buckets) <= swipe_bucket_count

\* C10: decode(encode(T)) has the timestamp and the buckets of T
C10_RoundTrip ==
    lab.tripped => /\ lab.trip_out.ts = lab.trip_in.ts
                   /\ lab.trip_out.buckets = lab.trip_in.buckets

\* a token with a negative timestamp and several buckets went round
C10_Tripped ==
    /\ lab.tripped
    /\ lab.trip_in.ts < 0
    /\ Len(lab.trip_in.buckets) >= 2

\* C11: decode never fails and falls back to a fresh token, so a swipe on an
\* existing ticker succeeds for every token input: every finished swipe on an
\* existing ticker has returned its response
C11_SwipeSucceedsForEveryToken ==
    \A r \in Requests :
        requests[r].pc = "done" /\ requests[r].ticker \in Stocks
            => requests[r].outcome = "ok"

\* C12: decode yields history only for strings an earlier encode produced;
\* a string the client made up itself is never accepted
C12_OnlyIssuedStringsAccepted ==
    lab.swipes > 0 /\ lab.accepted => lab.origin # "client"

Abs(x) == IF x < 0 THEN 0 - x ELSE x

\* C13: for every token string and every draw the factor from the history is
\* at most 1.5: |delta| <= price * swipe_base_percent_max
\* * swipe_random_multiplier_max * 1.5
C13_HistoryFactorBounded ==
    lab.ran =>
        \A draw \in Draws :
            Abs(lab.deltas[draw]) * 10000
                <= lab.price * swipe_base_percent_max * swipe_random_multiplier_max * 15

\* C14: pickiness_ratio of every token the pipeline analyzes is in [0, 1],
\* and is 0.5 when total_left + total_right = 0
C14_PickinessInUnitInterval ==
    lab.ran =>
        /\ lab.stats.pickiness_ratio[2] > 0
        /\ 0 <= lab.stats.pickiness_ratio[1]
        /\ lab.stats.pickiness_ratio[1] <= lab.stats.pickiness_ratio[2]
        /\ lab.stats.total_left + lab.stats.total_right = 0
              => 2 * lab.stats.pickiness_ratio[1] = lab.stats.pickiness_ratio[2]

\* the bucket list with the counter of direction in bucket 0 incremented
Bumped(buckets, direction) ==
    [buckets EXCEPT ![1] = IF direction = LEFT THEN <<@[1] + 1, @[2]>>
                           ELSE <<@[1], @[2] + 1>>]

\* k empty buckets
EmptyBuckets(k) == [i \in 1..k |-> <<0, 0>>]

\* whole bucket durations between the token's timestamp and the update
ElapsedBuckets == (lab.at - lab.before.ts) \div swipe_bucket_duration

\* C15: if k = (now - ts) // swipe_bucket_duration > 0, update leaves the first
\* swipe_bucket_count of (k empty buckets, then the old buckets) with the
\* counter of the direction in bucket 0 incremented, and ts = now
C15_Shift ==
    lab.ran /\ ElapsedBuckets > 0 =>
        /\ lab.token.ts = lab.at
        /\ lab.token.buckets =
             Bumped(SubSeq(EmptyBuckets(ElapsedBuckets) \o lab.before.buckets, 1,
                           Min(swipe_bucket_count,
                               ElapsedBuckets + Len(lab.before.buckets))),
                    lab.direction)

\* the example: [(3,2)] updated RIGHT two bucket durations later
C15_ShiftExample ==
    /\ lab.ran
    /\ lab.before = ShiftToken
    /\ lab.at = ShiftToken.ts + 2 * swipe_bucket_duration
    /\ lab.direction = RIGHT
    /\ lab.token = [ts |-> lab.at, buckets |-> << <<0, 1>>, <<0, 0>>, <<3, 2>> >>]

\* C16: with at least one bucket and 0 <= now - ts < swipe_bucket_duration,
\* update increments the counter of the direction in bucket 0 and leaves the
\* other counter, the other buckets, their number and ts as they were
C16_SameWindow ==
    /\ lab.ran
    /\ lab.before.buckets # <<>>
    /\ 0 <= lab.at - lab.before.ts
    /\ lab.at - lab.before.ts < swipe_bucket_duration
    => /\ lab.token.ts = lab.before.ts
       /\ Len(lab.token.buckets) = Len(lab.before.buckets)
       /\ \A i \in 2..Len(lab.before.buckets) : lab.token.buckets[i] = lab.before.buckets[i]
       /\ lab.token.buckets[1] =
            IF lab.direction = LEFT
            THEN <<lab.before.buckets[1][1] + 1, lab.before.buckets[1][2]>>
            ELSE <<lab.before.buckets[1][1], lab.before.buckets[1][2] + 1>>

\* a token stamped earlier in the current window was updated
C16_LaterInWindow ==
    /\ lab.ran
    /\ lab.accepted
    /\ Len(lab.before.buckets) >= 2
    /\ lab.at - lab.before.ts > 0
    /\ lab.at - lab.before.ts < swipe_bucket_duration

\* C17: if now - ts >= swipe_bucket_duration * swipe_bucket_count, the updated
\* token holds one swipe, in bucket 0, and analyze returns what it returns
\* for a fresh token after the same update
C17_IdleReset ==
    lab.ran /\ lab.at - lab.before.ts >= swipe_bucket_duration * swipe_bucket_count =>
        /\ SumLeft(lab.token.buckets) + SumRight(lab.token.buckets) = 1
        /\ lab.token.buckets[1][1] + lab.token.buckets[1][2] = 1
        /\ lab.stats = analyze(update(FreshToken(lab.at), lab.direction, lab.at))

\* a token with counts was updated after swipe_bucket_count bucket durations
C17_LongIdle ==
    /\ lab.ran
    /\ lab.before = ShiftToken
    /\ lab.at - lab.before.ts >= swipe_bucket_duration * swipe_bucket_count

\* C18: after every update at time now, 0 <= now - ts < swipe_bucket_duration
C18_BucketZeroIsCurrentWindow ==
    lab.ran =>
        /\ 0 <= lab.at - lab.token.ts
        /\ lab.at - lab.token.ts < swipe_bucket_duration

\* the one direction of the swipes in a bucket, NoDirection for an empty or
\* mixed bucket
OnlyDirection(bucket) ==
    IF bucket[1] > 0 /\ bucket[2] = 0 THEN LEFT
    ELSE IF bucket[2] > 0 /\ bucket[1] = 0 THEN RIGHT
    ELSE NoDirection

\* the length of the leading run of buckets that hold swipes of one and the
\* same direction only
LeadingRun(buckets) ==
    IF buckets = <<>> \/ OnlyDirection(buckets[1]) = NoDirection THEN 0
    ELSE (CHOOSE k \in 1..(Len(buckets) + 1) :
             /\ \A j \in 1..(k - 1) : OnlyDirection(buckets[j]) = OnlyDirection(buckets[1])
             /\ k <= Len(buckets) => OnlyDirection(buckets[k]) # OnlyDirection(buckets[1])) - 1

\* C19: analyze reports a streak (direction and non-zero length) if and only
\* if the leading run has length >= swipe_streak_threshold; otherwise the
\* direction is null and the length 0
C19_StreakIffLeadingRun ==
    lab.ran =>
        IF LeadingRun(lab.token.buckets) >= swipe_streak_threshold
        THEN /\ lab.stats.streak_direction = OnlyDirection(lab.token.buckets[1])
             /\ lab.stats.streak_length # 0
        ELSE /\ lab.stats.streak_direction = NoDirection
             /\ lab.stats.streak_length = 0

\* a streak was reported
C19_Reported ==
    /\ lab.ran
    /\ lab.stats.streak_direction = RIGHT
    /\ lab.stats.streak_length >= swipe_streak_threshold

SixRight == [i \in 1..6 |-> <<0, 1>>]
MixedExample == << <<0, 1>>, <<0, 1>>, <<1, 1>>, <<0, 1>>, <<0, 1>>, <<0, 1>> >>

\* C20 as stated: streak_length is the length of the leading run (6 for six
\* (0,1) buckets, 2 for the run broken by the mixed bucket)
C20_StreakLengthIsLeadingRun ==
    lab.ran => lab.stats.streak_length = LeadingRun(lab.token.buckets)

\* C20: streak_length is the length of the leading run when that is at least
\* swipe_streak_threshold, and 0 otherwise: six (0,1) buckets give RIGHT and 6,
\* the run of 2 broken by the mixed bucket gives no direction and 0
C20_StreakLengthWhenReported ==
    lab.ran =>
        /\ lab.stats.streak_length =
             IF LeadingRun(lab.token.buckets) >= swipe_streak_threshold
             THEN LeadingRun(lab.token.buckets) ELSE 0
        /\ lab.token.buckets = SixRight
              => lab.stats.streak_direction = RIGHT /\ lab.stats.streak_length = 6
        /\ lab.token.buckets = MixedExample
              => lab.stats.streak_direction = NoDirection /\ lab.stats.streak_length = 0

\* the token with the run broken by the mixed bucket was analyzed
C20_MixedAnalyzed ==
    /\ lab.ran
    /\ lab.token.buckets = MixedExample
    /\ LeadingRun(lab.token.buckets) = 2


\* C21: once a client has made swipe_streak_threshold or more swipes in a row
\* in one direction, each with the token of the swipe before, its next swipes
\* in that direction get streak_mult = swipe_streak_penalty, however close in
\* time the swipes are
C21_StreakPenaltyAfterThreshold ==
    lab.run > swipe_streak_threshold => lab.streak_mult = swipe_streak_penalty

\* the counters of a bucket list all >= 0
CountsNonNegative(buckets) ==
    \A i \in 1..Len(buckets) : buckets[i][1] >= 0 /\ buckets[i][2] >= 0

\* the bucket update increments: bucket 0 of tok at time at after the shift
\* and before the increment
CurrentBucket(tok, at) ==
    IF (at - tok.ts) \div swipe_bucket_duration > 0 \/ tok.buckets = <<>>
    THEN <<0, 0>> ELSE tok.buckets[1]

\* C29: starting from a fresh token, after n updates every counter is >= 0,
\* the sum of all counters is at most n and is n while no non-empty bucket
\* has been trimmed off (it is n less the swipes trimmed off), and the last
\* update raised exactly one counter of bucket 0 by exactly one
C29_CountConservation ==
    lab.swipes > 0 =>
        /\ CountsNonNegative(lab.token.buckets)
        /\ SumLeft(lab.token.buckets) + SumRight(lab.token.buckets) <= lab.swipes
        /\ lab.lost = 0 =>
              SumLeft(lab.token.buckets) + SumRight(lab.token.buckets) = lab.swipes
        /\ SumLeft(lab.token.buckets) + SumRight(lab.token.buckets) + lab.lost
              = lab.swipes
        /\ lab.token.buckets[1] =
              IF lab.direction = LEFT
              THEN <<CurrentBucket(lab.before, lab.at)[1] + 1,
                     CurrentBucket(lab.before, lab.at)[2]>>
              ELSE <<CurrentBucket(lab.before, lab.at)[1],
                     CurrentBucket(lab.before, lab.at)[2] + 1>>

\* a swipe was trimmed off and the client swiped on
C29_SwipeTrimmedOff ==
    /\ lab.lost > 0
    /\ lab.swipes >= 3

C25_DeltaIsChangeApplied ==
    \A t \in Tickers :
        \A i \in 1..Len(price_events[t]) :
            price_events[t][i].writer \in Requests =>
                price_events[t][i].price - price_events[t][i].read_price
                    = price_events[t][i].delta

\* a before b wherever both are among the steps
StepsBefore(steps, a, b) ==
    \A i, j \in 1..Len(steps) : steps[i] = a /\ steps[j] = b => i < j

StepsHave(steps, a) == \E i \in 1..Len(steps) : steps[i] = a

\* C26: decode, update and analyze are complete before the request asks for
\* the gate of its ticker; no request holds or waits for a gate during them
C26_TokenStepsBeforeGate ==
    \A r \in Requests :
        /\ requests[r].pc # "idle" =>
              \A a \in {"decode", "update", "analyze"} : StepsHave(requests[r].steps, a)
        /\ \A a \in {"decode", "update", "analyze"} :
           \A g \in {"acquire", "wait", "acquired", "release"} :
              /\ StepsBefore(requests[r].steps, a, g)
              /\ StepsHave(requests[r].steps, g) => StepsHave(requests[r].steps, a)

\* a request waits for the gate another one holds
C26_Waiting ==
    \E r, q \in Requests :
        /\ requests[r].pc = "waiting"
        /\ requests[q].pc \in {"get", "commit"}
        /\ requests[q].lock = requests[r].lock

\* C27: in every swipe that commits the order is: new price committed, gate
\* released, token encoded; the token is never encoded while the request
\* holds the gate
C27_EncodeAfterRelease ==
    \A r \in Requests :
        StepsHave(requests[r].steps, "encode") =>
            /\ StepsBefore(requests[r].steps, "commit", "release")
            /\ StepsBefore(requests[r].steps, "release", "encode")

\* the gate of ticker t is held
GateHeld(t) ==
    IF ticker_locks[t] \in DOMAIN locks THEN locks[ticker_locks[t]].locked ELSE FALSE

\* C28: the gate is released on every exit from the critical section, so a
\* request that waits for a gate gets it, and no gate stays held forever
C28_WaiterGetsGate ==
    /\ \A r \in Requests : (requests[r].pc = "waiting") ~> (requests[r].pc = "get")
    /\ \A r \in Requests :
          (requests[r].pc \in {"get", "commit"}) ~> (requests[r].pc = "done")
    /\ \A t \in Tickers : GateHeld(t) ~> ~GateHeld(t)

\* a request waits for a gate whose holder then fails in the commit
C28_WaitedBehindFailure ==
    \E r, q \in Requests :
        /\ requests[r].pc = "get" /\ requests[r].waited
        /\ requests[q].pc = "done" /\ requests[q].outcome = "error"
        /\ requests[q].lock = requests[r].lock

\* the events a step appends to the log of ticker t
Appended(t) ==
    {price_events'[t][i] : i \in (Len(price_events[t]) + 1)..Len(price_events'[t])}

\* C30: once the current price of a stock is 0, every swipe and every
\* scheduled tick computes delta 0 and appends price 0, so the price stays 0
\* until an admin price set writes a positive one
C30_ZeroIsAbsorbing ==
    [][\A t \in Stocks :
          StockPrice(price_events[t]) = 0 =>
              /\ \A ev \in Appended(t) :
                    ev.change_type \in {SWIPE_UP, SWIPE_DOWN, RANDOM} =>
                        ev.delta = 0 /\ ev.price = 0
              /\ StockPrice(price_events'[t]) # 0 =>
                    \E ev \in Appended(t) : ev.change_type = ADMIN /\ ev.price > 0]_vars

\* C22: for every current price >= 0, every stats value and every draw in
\* the configured ranges, calculate_price_delta returns a value <= 0 for
\* LEFT and a value >= 0 for RIGHT
C22_DeltaSign ==
    lab.applied =>
        /\ lab.direction = LEFT => ~FloatLess(FloatZero(0), lab.delta)
        /\ lab.direction = RIGHT => ~FloatLess(lab.delta, FloatZero(0))

\* a LEFT swipe with a streak and a pickiness_ratio below 0 got a delta
\* below zero
C22_NegativeDelta ==
    /\ lab.applied
    /\ lab.direction = LEFT
    /\ lab.streak_direction = LEFT
    /\ lab.pickiness_ratio = <<0 - 16, 1>>
    /\ FloatLess(lab.delta, FloatZero(0))

\* C23: for fixed price, direction, draws and pickiness_ratio the delta with
\* stats.streak_direction equal to the direction is exactly
\* swipe_streak_penalty times the delta with no streak; a streak in the
\* opposite direction leaves the delta unchanged
C23_StreakDampening ==
    lab.applied =>
        IF lab.streak_direction = lab.direction
        THEN lab.delta = FloatMul(TrueDiv(swipe_streak_penalty, 10), lab.no_streak)
        ELSE lab.delta = lab.no_streak

====
